---- MODULE Spec2Model ----
(***************************************************************************)
(* The Streamlit fine-tuning manager of src/app.py as a state machine.     *)
(* One step of Next is one run of the script, triggered by one user event  *)
(* (a widget edit or a button click).  The state is what survives between  *)
(* runs (st.session_state, the widgets' values, the temporary directory,   *)
(* the provider's objects) plus what the last run did (the remote calls it *)
(* issued and what it put on the screen).                                  *)
(***************************************************************************)
EXTENDS Integers, Sequences, FiniteSets, TLC

\* Bounds of the model: how many objects the provider accepts, how many
\* temporary files may be left behind.
MaxFiles == 3
MaxJobs == 2
MaxLeaked == 1

----------------------------------------------------------------------------
\* Python values.  Optional values (None or a value) are tagged records.
None == [tag |-> "none", val |-> ""]
Str(s) == [tag |-> "str", val |-> s]
File(b) == [tag |-> "file", val |-> b]
\* Python truthiness of an Optional[str]: None and "" are both falsy.
Truthy(v) == v.tag /= "none" /\ v.val /= ""

available_models ==
    << "gpt-4.1-2025-04-14", "gpt-4.1-mini-2025-04-14", "gpt-4o-2024-08-06",
       "gpt-4o-mini-2024-07-18", "gpt-3.5-turbo-0125", "gpt-3.5-turbo-1106",
       "gpt-3.5-turbo-0613" >>
\* index=3 of the selectbox, counted from 1 here.
DefaultModelIndex == 4

\* The inputs the user may supply.
EnvKeys == {"", "sk-live"}
ApiKeys == {"", "sk-live", "sk-unusable"}
ModelChoices == {available_models[DefaultModelIndex], available_models[1]}
UploadChoices == {File("utf8"), File("not-utf8")}
JobIdOf(n) == "ftjob-" \o ToString(n)
FileIdOf(n) == "file-" \o ToString(n)
JobIdInputs == {"", "ftjob-missing"} \cup {JobIdOf(n) : n \in 1..MaxJobs}

\* What the provider may answer.
TmpOutcomes == {"written", "create_failed", "write_failed"}
RetrieveStatuses == {"running", "succeeded"}
FineTunedModels == {None, Str(""), Str("ft:gpt-4o-mini:custom")}

\* A provider object (file or job), with the fields the script reads.
Obj(id, status, model, training_file, ftm, created_at) ==
    [id |-> id, status |-> status, model |-> model,
     training_file |-> training_file, fine_tuned_model |-> ftm,
     created_at |-> created_at]
NoObj == Obj("", "", "", "", None, 0)

\* One remote call as the client issued it.
Call(op, training_file, model, jid, raised, ret) ==
    [op |-> op, training_file |-> training_file, model |-> model,
     job_id |-> jid, raised |-> raised, ret |-> ret]

VARIABLES
    session_state,   \* st.session_state: a function from keys to values
    client,          \* the client handle of the last run, or None
    selected_model,  \* the selectbox
    uploaded_file,   \* the file uploader: None or a file
    job_id,          \* the job id text input
    tmp_files,       \* the names of the temporary files that exist
    tmp_name,        \* the temporary file the last run created, 0 if none
    remote_files,    \* the provider's file objects, in creation order
    remote_jobs,     \* the provider's job objects, as returned at creation
    calls,           \* the remote calls the last run issued, in order
    action,          \* what the last run was: init, rerun, submit, status, cancel
    screen,          \* what the last run rendered
    before,          \* history and provider sizes when the last run started
    submitted        \* the jobs returned to the submit actions that succeeded

vars == << session_state, client, selected_model, uploaded_file, job_id,
           tmp_files, tmp_name, remote_files, remote_jobs, calls, action,
           screen, before, submitted >>

----------------------------------------------------------------------------
\* st.session_state.jobs, which does not exist before the first append.
Jobs(ss) == IF "jobs" \in DOMAIN ss THEN ss["jobs"] ELSE << >>
SetKey(ss, k, v) == [x \in DOMAIN ss \cup {k} |-> IF x = k THEN v ELSE ss[x]]

\* OpenAI(api_key=...) raises for some keys.
OpenAIRaises(key) == key = "sk-unusable"

\* A variant that builds the client without testing the key for emptiness.
InitClientAlways(key) ==
    IF OpenAIRaises(key) THEN None ELSE [tag |-> "client", val |-> key]

\* client = None; if st.session_state.api_key: try: client = OpenAI(...)
InitClient(key) ==
    IF key /= "" /\ ~OpenAIRaises(key)
    THEN [tag |-> "client", val |-> key]
    ELSE None

\* uploaded_file.getvalue().decode("utf-8") of the preview, outside any try.
PreviewRaises(f) == f /= None /\ f.val = "not-utf8"

\* The "Recent Jobs" section: one expander per history entry.
RecentJobs(ss) == [i \in 1..Len(Jobs(ss)) |-> Jobs(ss)[i].job_id]

Screen(outcome, message, json, ss) ==
    [outcome |-> outcome, message |-> message, json |-> json,
     recent |-> IF outcome = "unhandled" THEN << >> ELSE RecentJobs(ss),
     completed |-> outcome /= "unhandled"]
NoJson == [kind |-> "none"]

Snapshot ==
    [jobs |-> Jobs(session_state), files |-> Len(remote_files),
     rjobs |-> Len(remote_jobs)]

----------------------------------------------------------------------------
\* The provider, as the client sees it: a call returns an object or raises,
\* and a call that raises has changed nothing.
files_create(files, ok) ==
    IF ok
    THEN LET f == Obj(FileIdOf(Len(files) + 1), "uploaded", "", "", None, 0)
         IN  [raised |-> FALSE, error |-> "", ret |-> f,
              files |-> Append(files, f)]
    ELSE [raised |-> TRUE, error |-> "upload rejected", ret |-> NoObj,
          files |-> files]

jobs_create(rjobs, training_file, model, ok) ==
    IF ok
    THEN LET j == Obj(JobIdOf(Len(rjobs) + 1), "validating_files", model,
                      training_file, None, Len(rjobs) + 1)
         IN  [raised |-> FALSE, error |-> "", ret |-> j,
              rjobs |-> Append(rjobs, j)]
    ELSE [raised |-> TRUE, error |-> "job rejected", ret |-> NoObj,
          rjobs |-> rjobs]

Known(rjobs, jid) == \E i \in 1..Len(rjobs) : rjobs[i].id = jid
Lookup(rjobs, jid) == rjobs[CHOOSE i \in 1..Len(rjobs) : rjobs[i].id = jid]

jobs_retrieve(rjobs, jid, ok, status, ftm) ==
    IF ok /\ Known(rjobs, jid)
    THEN [raised |-> FALSE, error |-> "",
          ret |-> [Lookup(rjobs, jid) EXCEPT !.status = status,
                                             !.fine_tuned_model = ftm]]
    ELSE [raised |-> TRUE, ret |-> NoObj,
          error |-> IF Known(rjobs, jid) THEN "request failed" ELSE "not found"]

jobs_cancel(rjobs, jid, ok) ==
    IF ok /\ Known(rjobs, jid)
    THEN [raised |-> FALSE, error |-> "",
          ret |-> [Lookup(rjobs, jid) EXCEPT !.status = "cancelled"]]
    ELSE [raised |-> TRUE, ret |-> NoObj,
          error |-> IF Known(rjobs, jid) THEN "cannot cancel" ELSE "not found"]

----------------------------------------------------------------------------
\* The functions of the script.

\* A variant that passes the id of the provider's first file to jobs.create.
create_fine_tuning_job_stale_file(c, tmp, file_path, model_name, files, rjobs, upOk, jobOk) ==
    LET up == files_create(files, upOk)
        upCall == Call("files.create", "", "", "", up.raised, up.ret)
        jc == jobs_create(rjobs, FileIdOf(1), model_name, jobOk)
        jcCall == Call("jobs.create", FileIdOf(1), model_name, "", jc.raised,
                       jc.ret)
    IN  IF up.raised
        THEN [raised |-> TRUE, error |-> up.error, calls |-> << upCall >>,
              files |-> up.files, rjobs |-> rjobs,
              uploaded_file |-> NoObj, job |-> NoObj]
        ELSE [raised |-> jc.raised, error |-> jc.error,
              calls |-> << upCall, jcCall >>,
              files |-> up.files, rjobs |-> jc.rjobs,
              uploaded_file |-> up.ret, job |-> jc.ret]

\* A variant that goes on to jobs.create after the upload has failed.
create_fine_tuning_job_continues(c, tmp, file_path, model_name, files, rjobs, upOk, jobOk) ==
    LET up == files_create(files, upOk)
        upCall == Call("files.create", "", "", "", up.raised, up.ret)
        jc == jobs_create(rjobs, up.ret.id, model_name, jobOk /\ ~up.raised)
        jcCall == Call("jobs.create", up.ret.id, model_name, "", jc.raised,
                       jc.ret)
    IN  [raised |-> jc.raised, error |-> jc.error,
         calls |-> << upCall, jcCall >>,
         files |-> up.files, rjobs |-> jc.rjobs,
         uploaded_file |-> up.ret, job |-> jc.ret]

create_fine_tuning_job(c, tmp, file_path, model_name, files, rjobs, upOk, jobOk) ==
    IF c = None \/ file_path \notin tmp
    THEN \* client.files or open(file_path, "rb") raises: nothing is sent
         [raised |-> TRUE, error |-> "no client or no file", calls |-> << >>,
          files |-> files, rjobs |-> rjobs,
          uploaded_file |-> NoObj, job |-> NoObj]
    ELSE LET up == files_create(files, upOk)
             upCall == Call("files.create", "", "", "", up.raised, up.ret)
         IN  IF up.raised
             THEN [raised |-> TRUE, error |-> up.error,
                   calls |-> << upCall >>,
                   files |-> up.files, rjobs |-> rjobs,
                   uploaded_file |-> NoObj, job |-> NoObj]
             ELSE LET jc == jobs_create(rjobs, up.ret.id, model_name, jobOk)
                      jcCall == Call("jobs.create", up.ret.id, model_name, "",
                                     jc.raised, jc.ret)
                  IN  [raised |-> jc.raised, error |-> jc.error,
                       calls |-> << upCall, jcCall >>,
                       files |-> up.files, rjobs |-> jc.rjobs,
                       uploaded_file |-> up.ret, job |-> jc.ret]

retrieve_fine_tuning_job(c, jid, rjobs, ok, status, ftm) ==
    IF c = None
    THEN [raised |-> TRUE, error |-> "no client", ret |-> NoObj, calls |-> << >>]
    ELSE LET r == jobs_retrieve(rjobs, jid, ok, status, ftm)
         IN  [raised |-> r.raised, error |-> r.error, ret |-> r.ret,
              calls |-> << Call("jobs.retrieve", "", "", jid, r.raised, r.ret) >>]

cancel_fine_tuning_job(c, jid, rjobs, ok) ==
    IF c = None
    THEN [raised |-> TRUE, error |-> "no client", ret |-> NoObj, calls |-> << >>]
    ELSE LET r == jobs_cancel(rjobs, jid, ok)
         IN  [raised |-> r.raised, error |-> r.error, ret |-> r.ret,
              calls |-> << Call("jobs.cancel", "", "", jid, r.raised, r.ret) >>]

----------------------------------------------------------------------------
\* The handlers of the three buttons.  Each takes the state it reads and the
\* provider's answers, and returns the state it leaves and what it rendered.

\* mkstemp picks a name that is not in use.
NewTmpName(tmp) == CHOOSE n \in 1..(Cardinality(tmp) + 1) : n \notin tmp

\* with tempfile.NamedTemporaryFile(delete=False, ...) as tmp_file: write.
\* Creating the file may fail (no file), and so may writing it (the file
\* exists, and delete=False keeps it when the with block is left).
write_tmp(tmp, tmpOutcome) ==
    CASE tmpOutcome = "create_failed" ->
            [raised |-> TRUE, error |-> "cannot create temporary file",
             tmp |-> tmp, name |-> 0]
      [] tmpOutcome = "write_failed" ->
            [raised |-> TRUE, error |-> "cannot write temporary file",
             tmp |-> tmp \cup {NewTmpName(tmp)}, name |-> NewTmpName(tmp)]
      [] OTHER ->
            [raised |-> FALSE, error |-> "",
             tmp |-> tmp \cup {NewTmpName(tmp)}, name |-> NewTmpName(tmp)]

\* finally: if os.path.exists(tmp_file_path): os.unlink(tmp_file_path)
cleanup(tmp, path) == IF path \in tmp THEN tmp \ {path} ELSE tmp

\* A variant that puts the new entry first.
PrependJob(ss, job) ==
    SetKey(ss, "jobs",
           << [job_id |-> job.id, status |-> job.status, model |-> job.model,
               created_at |-> job.created_at] >> \o Jobs(ss))

\* if 'jobs' not in st.session_state: ... = []; st.session_state.jobs.append
AppendJob(ss, job) ==
    SetKey(ss, "jobs",
           Append(Jobs(ss),
                  [job_id |-> job.id, status |-> job.status,
                   model |-> job.model, created_at |-> job.created_at]))

\* A variant that lets the exception leave the handler.
PropagateCancel(e) == [outcome |-> "unhandled", message |-> ""]

\* except Exception as e: st.error(f"...: {str(e)}")
ExceptStart(e) ==
    [outcome |-> "error", message |-> "Error creating fine-tuning job: " \o e]
ExceptStatus(e) ==
    [outcome |-> "error", message |-> "Error retrieving job status: " \o e]
ExceptCancel(e) ==
    [outcome |-> "error", message |-> "Error cancelling job: " \o e]

\* job.fine_tuned_model if job.fine_tuned_model else "Not available yet"
DisplayFineTunedModel(v) == IF Truthy(v) THEN v ELSE Str("Not available yet")

StartResult(ss, tmp, name, files, rjobs, cs, out, json) ==
    [session_state |-> ss, tmp_files |-> tmp, tmp_name |-> name,
     remote_files |-> files, remote_jobs |-> rjobs, calls |-> cs,
     outcome |-> out.outcome, message |-> out.message, json |-> json]

\* A variant whose history append raises after the job has been created.
StartHandlerAppendRaises(ss, c, model, tmp, files, rjobs, tmpOutcome, upOk, jobOk) ==
    LET w == write_tmp(tmp, tmpOutcome)
        r == create_fine_tuning_job(c, w.tmp, w.name, model, files, rjobs,
                                    upOk, jobOk)
    IN  IF w.raised
        THEN StartResult(ss, w.tmp, w.name, files, rjobs, << >>,
                         ExceptStart(w.error), NoJson)
        ELSE StartResult(ss, cleanup(w.tmp, w.name), w.name, r.files, r.rjobs,
                         r.calls,
                         ExceptStart(IF r.raised THEN r.error ELSE "created_at"),
                         NoJson)

\* A variant that appends to the history in the finally block.
StartHandlerAppendsAlways(ss, c, model, tmp, files, rjobs, tmpOutcome, upOk, jobOk) ==
    LET w == write_tmp(tmp, tmpOutcome)
        r == create_fine_tuning_job(c, w.tmp, w.name, model, files, rjobs,
                                    upOk, jobOk)
    IN  IF w.raised
        THEN StartResult(ss, w.tmp, w.name, files, rjobs, << >>,
                         ExceptStart(w.error), NoJson)
        ELSE IF r.raised
        THEN StartResult(AppendJob(ss, r.job), cleanup(w.tmp, w.name), w.name,
                         r.files, r.rjobs, r.calls, ExceptStart(r.error),
                         NoJson)
        ELSE StartResult(AppendJob(SetKey(ss, "uploaded_file", None), r.job),
                         cleanup(w.tmp, w.name), w.name, r.files, r.rjobs,
                         r.calls,
                         [outcome |-> "success",
                          message |-> "Fine-tuning job created successfully!"],
                         [job_id |-> r.job.id, status |-> r.job.status,
                          model |-> r.job.model,
                          file_id |-> r.uploaded_file.id])

\* if st.button("Start Fine-Tuning", ...): try: ... except Exception
StartHandler(ss, c, model, tmp, files, rjobs, tmpOutcome, upOk, jobOk) ==
    LET w == write_tmp(tmp, tmpOutcome)
        r == create_fine_tuning_job(c, w.tmp, w.name, model, files, rjobs,
                                    upOk, jobOk)
    IN  IF w.raised
        THEN \* the inner try, and its finally, are never entered
             StartResult(ss, w.tmp, w.name, files, rjobs, << >>,
                         ExceptStart(w.error), NoJson)
        ELSE IF r.raised
        THEN StartResult(ss, cleanup(w.tmp, w.name), w.name, r.files, r.rjobs,
                         r.calls, ExceptStart(r.error), NoJson)
        ELSE StartResult(AppendJob(SetKey(ss, "uploaded_file", None), r.job),
                         cleanup(w.tmp, w.name), w.name, r.files, r.rjobs,
                         r.calls,
                         [outcome |-> "success",
                          message |-> "Fine-tuning job created successfully!"],
                         [job_id |-> r.job.id, status |-> r.job.status,
                          model |-> r.job.model,
                          file_id |-> r.uploaded_file.id])

\* if st.button("Check Job Status", ...): try: ... except Exception
StatusHandler(ss, c, jid, rjobs, ok, status, ftm) ==
    LET r == retrieve_fine_tuning_job(c, jid, rjobs, ok, status, ftm)
        out == IF r.raised THEN ExceptStatus(r.error)
               ELSE [outcome |-> "success", message |-> ""]
    IN  [session_state |-> ss, calls |-> r.calls,
         outcome |-> out.outcome, message |-> out.message,
         json |-> IF r.raised THEN NoJson
                  ELSE [job_id |-> r.ret.id, status |-> r.ret.status,
                        model |-> r.ret.model,
                        fine_tuned_model |->
                            DisplayFineTunedModel(r.ret.fine_tuned_model)]]

\* A variant that writes the cancelled status into the history.
CancelHandlerSyncsHistory(ss, c, jid, rjobs, ok) ==
    LET r == cancel_fine_tuning_job(c, jid, rjobs, ok)
        out == IF r.raised THEN ExceptCancel(r.error)
               ELSE [outcome |-> "success",
                     message |-> "Job " \o jid \o " cancelled successfully!"]
        synced == [i \in 1..Len(Jobs(ss)) |->
                      IF Jobs(ss)[i].job_id = jid
                      THEN [Jobs(ss)[i] EXCEPT !.status = r.ret.status]
                      ELSE Jobs(ss)[i]]
    IN  [session_state |-> IF r.raised THEN ss ELSE SetKey(ss, "jobs", synced),
         calls |-> r.calls,
         outcome |-> out.outcome, message |-> out.message,
         json |-> IF r.raised THEN NoJson
                  ELSE [job_id |-> r.ret.id, status |-> r.ret.status]]

\* if st.button("Cancel Job", ...): try: ... except Exception
CancelHandler(ss, c, jid, rjobs, ok) ==
    LET r == cancel_fine_tuning_job(c, jid, rjobs, ok)
        out == IF r.raised THEN ExceptCancel(r.error)
               ELSE [outcome |-> "success",
                     message |-> "Job " \o jid \o " cancelled successfully!"]
    IN  [session_state |-> ss, calls |-> r.calls,
         outcome |-> out.outcome, message |-> out.message,
         json |-> IF r.raised THEN NoJson
                  ELSE [job_id |-> r.ret.id, status |-> r.ret.status]]

----------------------------------------------------------------------------
\* The state after the first run of the script, before any user event.
Init ==
    /\ \E k \in EnvKeys :
          /\ session_state = [x \in {"api_key"} |-> k]
          /\ client = InitClient(k)
    /\ selected_model = available_models[DefaultModelIndex]
    /\ uploaded_file = None
    /\ job_id = ""
    /\ tmp_files = {}
    /\ tmp_name = 0
    /\ remote_files = << >>
    /\ remote_jobs = << >>
    /\ calls = << >>
    /\ action = "init"
    /\ screen = Screen("none", "", NoJson, session_state)
    /\ before = [jobs |-> << >>, files |-> 0, rjobs |-> 0]
    /\ submitted = << >>

\* A run in which no button is pressed.  The preview raises on bytes that
\* are not UTF-8; the run stops there, the widgets below it are not drawn
\* and the job id input loses its value.
Rerun(ss, f, jid) ==
    /\ session_state' = ss
    /\ client' = InitClient(ss["api_key"])
    /\ uploaded_file' = f
    /\ job_id' = IF PreviewRaises(f) THEN "" ELSE jid
    /\ calls' = << >>
    /\ action' = "rerun"
    /\ tmp_name' = 0
    /\ screen' = Screen(IF PreviewRaises(f) THEN "unhandled" ELSE "none",
                        "", NoJson, ss)
    /\ before' = Snapshot
    /\ UNCHANGED << tmp_files, remote_files, remote_jobs, submitted >>

\* The user edits the API key field.
EditApiKey(k) ==
    /\ k /= session_state["api_key"]
    /\ Rerun(SetKey(session_state, "api_key", k), uploaded_file, job_id)
    /\ UNCHANGED selected_model

\* The widgets below are disabled while there is no client.
SelectModel(m) ==
    /\ client /= None
    /\ m /= selected_model
    /\ selected_model' = m
    /\ Rerun(session_state, uploaded_file, job_id)

ChooseFile(f) ==
    /\ client /= None
    /\ f /= uploaded_file
    /\ Rerun(session_state, f, job_id)
    /\ UNCHANGED selected_model

EnterJobId(j) ==
    /\ client /= None
    /\ screen.completed
    /\ j /= job_id
    /\ Rerun(session_state, uploaded_file, j)
    /\ UNCHANGED selected_model

\* st.button("Start Fine-Tuning", disabled=client is None or uploaded_file is None)
StartFineTuning(tmpOutcome, upOk, jobOk) ==
    /\ screen.completed
    /\ ~(client = None \/ uploaded_file = None)
    /\ tmpOutcome = "write_failed" => Cardinality(tmp_files) < MaxLeaked
    /\ upOk => Len(remote_files) < MaxFiles
    /\ jobOk => Len(remote_jobs) < MaxJobs
    /\ LET c == InitClient(session_state["api_key"])
           h == StartHandler(session_state, c, selected_model, tmp_files,
                             remote_files, remote_jobs, tmpOutcome, upOk, jobOk)
       IN  /\ client' = c
           /\ session_state' = h.session_state
           /\ tmp_files' = h.tmp_files
           /\ tmp_name' = h.tmp_name
           /\ remote_files' = h.remote_files
           /\ remote_jobs' = h.remote_jobs
           /\ calls' = h.calls
           /\ action' = "submit"
           /\ screen' = Screen(h.outcome, h.message, h.json, h.session_state)
           /\ submitted' = IF h.outcome = "success"
                           THEN Append(submitted, h.calls[Len(h.calls)].ret)
                           ELSE submitted
    /\ before' = Snapshot
    /\ UNCHANGED << selected_model, uploaded_file, job_id >>

\* st.button("Check Job Status", disabled=client is None or not job_id)
CheckJobStatus(ok, status, ftm) ==
    /\ screen.completed
    /\ ~(client = None \/ job_id = "")
    /\ LET c == InitClient(session_state["api_key"])
           h == StatusHandler(session_state, c, job_id, remote_jobs, ok,
                              status, ftm)
       IN  /\ client' = c
           /\ session_state' = h.session_state
           /\ calls' = h.calls
           /\ action' = "status"
           /\ screen' = Screen(h.outcome, h.message, h.json, h.session_state)
    /\ tmp_name' = 0
    /\ before' = Snapshot
    /\ UNCHANGED << selected_model, uploaded_file, job_id, tmp_files,
                    remote_files, remote_jobs, submitted >>

\* st.button("Cancel Job", disabled=client is None or not job_id)
CancelJob(ok) ==
    /\ screen.completed
    /\ ~(client = None \/ job_id = "")
    /\ LET c == InitClient(session_state["api_key"])
           h == CancelHandler(session_state, c, job_id, remote_jobs, ok)
       IN  /\ client' = c
           /\ session_state' = h.session_state
           /\ calls' = h.calls
           /\ action' = "cancel"
           /\ screen' = Screen(h.outcome, h.message, h.json, h.session_state)
    /\ tmp_name' = 0
    /\ before' = Snapshot
    /\ UNCHANGED << selected_model, uploaded_file, job_id, tmp_files,
                    remote_files, remote_jobs, submitted >>

Next ==
    \/ \E k \in ApiKeys : EditApiKey(k)
    \/ \E m \in ModelChoices : SelectModel(m)
    \/ \E f \in UploadChoices \cup {None} : ChooseFile(f)
    \/ \E j \in JobIdInputs : EnterJobId(j)
    \/ \E t \in TmpOutcomes, upOk \in BOOLEAN, jobOk \in BOOLEAN :
          StartFineTuning(t, upOk, jobOk)
    \/ \E ok \in BOOLEAN, s \in RetrieveStatuses, m \in FineTunedModels :
          CheckJobStatus(ok, s, m)
    \/ \E ok \in BOOLEAN : CancelJob(ok)

Spec == Init /\ [][Next]_vars

----------------------------------------------------------------------------
\* The properties.

HistoryEntry(job) ==
    [job_id |-> job.id, status |-> job.status, model |-> job.model,
     created_at |-> job.created_at]
History == Jobs(session_state)
TmpWritten == tmp_name /= 0 /\ tmp_name \notin tmp_files
Failed == screen.outcome = "error"
Succeeded == screen.outcome = "success"

\* C1 as stated: every submit action that calls create_fine_tuning_job issues
\* exactly one upload call followed by exactly one job-create call whose
\* training_file is the id the upload returned.
C1_EverySubmitUploadsAndCreates ==
    (action = "submit" /\ TmpWritten) =>
        /\ Len(calls) = 2
        /\ calls[1].op = "files.create" /\ ~calls[1].raised
        /\ calls[2].op = "jobs.create"
        /\ calls[2].training_file = calls[1].ret.id

\* C1 as amended: a submit action whose transient file was written issues
\* exactly one upload call; when the upload returns, exactly one job-create
\* call follows it, with the returned id as training_file and the selected
\* model; when the upload fails, no job-create call is issued.  A submit
\* action whose transient file was not written issues no call.
C1_UploadThenCreate ==
    action = "submit" =>
        IF TmpWritten
        THEN /\ Len(calls) \in {1, 2}
             /\ calls[1].op = "files.create"
             /\ calls[1].raised => Len(calls) = 1
             /\ ~calls[1].raised =>
                   /\ Len(calls) = 2
                   /\ calls[2].op = "jobs.create"
                   /\ calls[2].training_file = calls[1].ret.id
                   /\ calls[2].model = selected_model
        ELSE calls = << >>

\* C1 witness: a submit action whose second upload was followed by a job-create.
C1_Witness ==
    /\ action = "submit" /\ TmpWritten /\ Len(calls) = 2
    /\ calls[1].ret.id = FileIdOf(2)
    /\ ~calls[2].raised

\* C2 as stated: after any submit action the transient file it created no
\* longer exists, whichever way the action ended.
C2_TransientFileRemoved ==
    action = "submit" => tmp_name \notin tmp_files

\* C3: the history has one entry per successful submit action, in the order
\* of the submits, each holding the values the provider returned at creation.
C3_HistoryAccumulates ==
    /\ Len(History) = Len(submitted)
    /\ \A i \in 1..Len(submitted) : History[i] = HistoryEntry(submitted[i])

\* C3 witness: two submits have succeeded and a later status check reports
\* a status for the first job that differs from the stored one.
C3_Witness ==
    /\ Len(submitted) = 2 /\ Len(remote_files) = 3
    /\ submitted[1].model /= submitted[2].model
    /\ action = "status" /\ Succeeded
    /\ screen.json.job_id = History[1].job_id
    /\ screen.json.status = "succeeded"
    /\ History[1].status = "validating_files"

\* C4: a status check or a cancel whose call the provider rejects ends in a
\* surfaced error message, no exception leaves the handler and the script
\* runs on to its end.
C4_RejectionsSurfaced ==
    action \in {"status", "cancel"} =>
        /\ screen.outcome /= "unhandled"
        /\ screen.completed
        /\ (Len(calls) = 1 /\ calls[1].raised) =>
              /\ Failed
              /\ screen.message /= ""
              /\ screen.recent = RecentJobs(session_state)

\* C4 witness: a cancel of an id the provider does not know, with a history
\* to render after it.
C4_Witness ==
    /\ action = "cancel" /\ job_id = "ftjob-missing"
    /\ Len(calls) = 1 /\ calls[1].raised
    /\ Failed /\ Len(screen.recent) = 1

\* C5: a status check or a cancel, successful or not, leaves the history as
\* it was.
C5_HistoryUntouched ==
    action \in {"status", "cancel"} => History = before.jobs

\* C5 witness: a successful cancel of a job that is in the history.
C5_Witness ==
    /\ action = "cancel" /\ Succeeded
    /\ \E i \in 1..Len(History) : History[i].job_id = job_id

\* C6 as stated: the displayed fine_tuned_model of a job that has none
\* differs from the displayed one of a job that has any other value.
C6_AbsentShownDistinctly ==
    (/\ action = "status" /\ Succeeded
     /\ screen.json.fine_tuned_model = DisplayFineTunedModel(None))
        => calls[1].ret.fine_tuned_model = None

\* C7 as stated: a submit action that fails has created no remote object, and
\* no remote file is without a job that references it.
C7_SubmitAllOrNothing ==
    /\ (action = "submit" /\ Failed) =>
          /\ Len(remote_files) = before.files
          /\ Len(remote_jobs) = before.rjobs
    /\ \A i \in 1..Len(remote_files) :
          \E j \in 1..Len(remote_jobs) :
             remote_jobs[j].training_file = remote_files[i].id

\* C7 as amended: a status check and a cancel issue a single remote call.  A
\* submit action that fails has created no remote job; it has created a
\* remote file, which no job references, exactly when its upload returned
\* and its job-create was rejected.
C7_FailedSubmitLeavesOnlyFile ==
    /\ action \in {"status", "cancel"} => Len(calls) = 1
    /\ (action = "submit" /\ Failed) =>
          /\ remote_jobs = SubSeq(remote_jobs, 1, before.rjobs)
          /\ Len(remote_jobs) = before.rjobs
          /\ IF Len(calls) = 2
             THEN /\ Len(remote_files) = before.files + 1
                  /\ \A j \in 1..Len(remote_jobs) :
                        remote_jobs[j].training_file
                            /= remote_files[Len(remote_files)].id
             ELSE Len(remote_files) = before.files

\* C7 witness: a submit action whose upload returned and whose job-create
\* was rejected.
C7_Witness ==
    /\ action = "submit" /\ Failed
    /\ Len(calls) = 2 /\ calls[2].raised
    /\ Len(remote_files) = Len(remote_jobs) + 1

\* C8: while the API key is empty or the client could not be constructed,
\* the client handle is None, no button handler runs and no remote call is
\* issued.
C8_NoClientNoCalls ==
    (session_state["api_key"] = "" \/ OpenAIRaises(session_state["api_key"]))
        => /\ client = None
           /\ calls = << >>
           /\ action \in {"init", "rerun"}

\* C8 witness: the key was removed after the session had a file chosen, a job
\* id entered and a job created.
C8_Witness ==
    /\ session_state["api_key"] = ""
    /\ uploaded_file /= None /\ job_id /= "" /\ Len(remote_jobs) > 0

\* C9: one action issues at most one call to each endpoint, and a call that
\* fails is the last call of its action.
C9_NoRetry ==
    /\ \A i, j \in 1..Len(calls) : i /= j => calls[i].op /= calls[j].op
    /\ \A i \in 1..Len(calls) : calls[i].raised => i = Len(calls)
    /\ action = "submit" =>
          \A i \in 1..Len(calls) : calls[i].op \in {"files.create", "jobs.create"}
    /\ action = "status" =>
          \A i \in 1..Len(calls) : calls[i].op = "jobs.retrieve"
    /\ action = "cancel" =>
          \A i \in 1..Len(calls) : calls[i].op = "jobs.cancel"

\* C9 witness: a submit action whose upload failed.
C9_Witness ==
    /\ action = "submit" /\ Len(calls) = 1
    /\ calls[1].op = "files.create" /\ calls[1].raised

\* C10: a submit action that fails leaves the history as it was; one that
\* changes it has had both calls succeed and appends the entry of the job
\* returned; every entry carries the id of a job the provider created.
C10_AppendOnlyAfterBoth ==
    /\ (action = "submit" /\ ~Succeeded) => History = before.jobs
    /\ (action = "submit" /\ History /= before.jobs) =>
          /\ Len(calls) = 2 /\ ~calls[1].raised /\ ~calls[2].raised
          /\ History = Append(before.jobs, HistoryEntry(calls[2].ret))
    /\ \A i \in 1..Len(History) : Known(remote_jobs, History[i].job_id)

\* C10 witness: a submit action that failed at job-create, with a history.
C10_Witness ==
    /\ action = "submit" /\ Failed
    /\ Len(calls) = 2 /\ calls[2].raised
    /\ Len(History) = 1

====
